---- MODULE Spec2Model ----
(***************************************************************************)
(* A model of fusion_datasets:                                             *)
(*   - ClickHouseTablesDataset (sql_dataset.py): the multi-table save path *)
(*     with its schema evolution, and the existence check, run against a   *)
(*     ClickHouse backend that is modelled by the database flag and the    *)
(*     live tables' column names;                                          *)
(*   - ComparisonFunction (comparison_function.py): the checkpoint         *)
(*     comparator with its lazily initialised checkpoint.                  *)
(***************************************************************************)
EXTENDS Integers, Sequences, FiniteSets, TLC

(***************************************************************************)
(* Bounds of the model.                                                    *)
(***************************************************************************)
\* longest list of frames handed to one table in one save call
MaxFrames == 2
\* the dates the comparator is called with: months 1..MaxMonth of the year,
\* days 1..MaxDay of each
MaxMonth == 2
MaxDay == 2
\* largest left / right day count handed to boundary
MaxDelta == 1
\* forwarders one dataset makes over its life
MaxTunnels == 2

(***************************************************************************)
(* The value domains of the save path.                                     *)
(***************************************************************************)
Tables == {"A", "B"}
Cols == {"id", "x"}
\* the column order of a frame (DataFrame.columns is ordered)
ColOrder == <<"id", "x">>
Absent == "absent"
\* the pandas dtype families _get_clickhouse_type tells apart
Dtypes == {"int64", "float64", "datetime64", "bool", "object"}
\* the dtypes a column takes in the frames the model saves
ColDtypes(c) == IF c = "id" THEN {"int64", "float64"} ELSE {"datetime64"}
\* a frame: its columns' dtypes (Absent: the frame has no such column)
Frames == {f \in [Cols -> Dtypes \cup {Absent}] :
             \A c \in Cols : f[c] = Absent \/ f[c] \in ColDtypes(c)}
NoFrame == [c \in Cols |-> Absent]
FrameLists == UNION {[1..n -> Frames] : n \in 0..MaxFrames}
\* the keys of the saved mapping, in the mapping's iteration order
KeyLists == {<<>>, <<"A">>, <<"B">>, <<"A", "B">>}
NoTable == "-"
NoTimezone == "None"
\* the configured datasets that save into the database (__init__ arguments)
Dataset(ow, ob, tz) == [overwrite |-> ow, order_by |-> ob, timezone |-> tz]
Datasets == {Dataset(FALSE, "id", NoTimezone), Dataset(TRUE, "id", "UTC"),
             Dataset(FALSE, "x", "UTC"), Dataset(TRUE, "x", NoTimezone)}

VARIABLES
  dbExists,     \* backend: the target database exists
  tableLive,    \* backend: table -> it exists
  tableCols,    \* backend: table -> its column names (DESCRIBE TABLE)
  pc,           \* position of the running _save: idle, table, ddl, insert
  overwrite,    \* self._overwrite of the saving dataset
  order_by,     \* self._order_by of the saving dataset
  timezone,     \* self._timezone of the saving dataset
  keys,         \* data.keys(), in iteration order
  kpos,         \* how many of them the loop has reached
  existed,      \* whether cur existed when its turn came
  cur,          \* table_name of the running iteration
  dfs,          \* its list of frames
  idx,          \* index of the running frame (enumerate(dfs))
  log,          \* statements of this call on the database and on cur
  dropped,      \* tables this call issued DROP TABLE for
  saveResult,   \* none, running, returned, raised
  existsResult, \* outcome of the last _exists: none, true, false, raised
  nans,         \* per frame of dfs, its columns that hold a not-a-number cell
  handed        \* such columns of the frame insert_df received last in this turn

saveVars == <<dbExists, tableLive, tableCols, pc, overwrite, order_by, timezone,
              keys, kpos, existed, cur, dfs, idx, log, dropped, saveResult,
              existsResult, nans, handed>>

VARIABLES
  current_checkpoint,  \* ComparisonFunction._current_checkpoint
  cmpPc,               \* idle, entered (wrapper done, body to run), done
  call,                \* the comparator call: function and arguments
  outcome              \* how it ended: return value or exception

cmpVars == <<current_checkpoint, cmpPc, call, outcome>>

\* SQLQueryDataset: the constructor's arguments, the position of _load, the
\* forwarders made so far, self._ssh_tunnel, the class-level engine cache
VARIABLES
  sqlCfg,
  sqlPc,
  tunnels,
  ssh_tunnel,
  engineCached,
  raising,
  ran,
  loadResult

sqlVars == <<sqlCfg, sqlPc, tunnels, ssh_tunnel, engineCached, raising, ran, loadResult>>

vars == <<saveVars, cmpVars, sqlVars>>

(***************************************************************************)
(* Type inference.                                                         *)
(***************************************************************************)
Type(w, b) == [wrap |-> w, base |-> b]

\* _get_clickhouse_type: wrap is the Nullable( ) wrapper
GetClickhouseType(dtype, tz) ==
  IF dtype = "int64" THEN Type(TRUE, "Int32")
  ELSE IF dtype = "float64" THEN Type(TRUE, "Float64")
  ELSE IF dtype = "datetime64"
    THEN IF tz # NoTimezone THEN Type(FALSE, "DateTime(tz)") ELSE Type(FALSE, "DateTime")
  ELSE IF dtype = "bool" THEN Type(TRUE, "UInt8")
  ELSE Type(TRUE, "String")

\* the dtype pd.concat gives two columns of dtypes a and b
CommonDtype(a, b) ==
  IF a = b THEN a
  ELSE IF {a, b} = {"int64", "float64"} THEN "float64"
  ELSE "object"

RECURSIVE ConcatDtype(_)
\* the dtype of pd.concat over a non-empty list of column dtypes
ConcatDtype(ds) ==
  IF Len(ds) = 1 THEN ds[1]
  ELSE CommonDtype(ds[1], ConcatDtype(Tail(ds)))

\* [df[[column]] for df in dataframes if column in df.columns], as dtypes
ColumnDtypes(dataframes, column) ==
  LET having == SelectSeq(dataframes, LAMBDA f : f[column] # Absent)
  IN [k \in 1..Len(having) |-> having[k][column]]

\* _get_merged_type
GetMergedType(dataframes, column, ob, tz) ==
  LET dtype == GetClickhouseType(ConcatDtype(ColumnDtypes(dataframes, column)), tz)
  IN IF column = ob /\ dtype.wrap THEN Type(FALSE, dtype.base) ELSE dtype

(***************************************************************************)
(* Statements issued to the backend.                                       *)
(***************************************************************************)
Decl(c, t) == [col |-> c, type |-> t]
Stmt(o, t, ds, f) == [op |-> o, table |-> t, decls |-> ds, frame |-> f]

\* the columns of a frame that can hold a not-a-number cell
NaNCols(f) == {c \in Cols : f[c] = "float64"}
\* per frame of fs, the columns that hold a not-a-number cell
NaNChoices(fs) == {ns \in [1..Len(fs) -> SUBSET Cols] :
                     \A k \in 1..Len(fs) : ns[k] \subseteq NaNCols(fs[k])}
NoNaNs(fs) == [k \in 1..Len(fs) |-> {}]

\* df.columns, in order
FrameCols(f) == SelectSeq(ColOrder, LAMBDA c : f[c] # Absent)
FrameColSet(f) == {c \in Cols : f[c] # Absent}

\* set(col for df in dfs for col in df.columns)
Universe(fs) == UNION {FrameColSet(fs[k]) : k \in 1..Len(fs)}

\* the orders in which a set of columns can be iterated
Orders(S) == {s \in [1..Cardinality(S) -> S] : \A a, b \in 1..Cardinality(S) : s[a] = s[b] => a = b}

\* the ADD COLUMN type of the ALTER branch: the running frame's dtype alone
AlterType(df, col, tz) == GetClickhouseType(df[col], tz)

\* a variant with the membership test inverted
MissingColsInverted(df, existing) == SelectSeq(FrameCols(df), LAMBDA c : c \in existing)

\* for col, dtype in df.dtypes.items(): if col not in existing_columns
MissingCols(df, existing) == SelectSeq(FrameCols(df), LAMBDA c : c \notin existing)

\* the backend accepts CREATE TABLE ... ORDER BY `ob` only when ob is one of
\* the declared columns
CreateAccepted(U, ob) == ob \in U

\* a variant that drops whatever the overwrite flag says
ShouldDropAlways(ow, exists) == exists

\* if self._overwrite and self._query_table_exists(table_name)
ShouldDrop(ow, exists) == ow /\ exists

(***************************************************************************)
(* ClickHouseTablesDataset._save, one action per backend round.            *)
(***************************************************************************)
\* _save is entered on a dataset with the given configuration;
\* _create_database_if_not_exists runs first
SaveBegin(ds, ks) ==
  /\ pc = "idle"
  /\ overwrite' = ds.overwrite
  /\ order_by' = ds.order_by
  /\ timezone' = ds.timezone
  /\ keys' = ks
  /\ kpos' = 0
  /\ existed' = FALSE
  /\ dbExists' = TRUE
  /\ log' = <<Stmt("CREATE_DATABASE", NoTable, <<>>, NoFrame)>>
  /\ dropped' = {}
  /\ cur' = NoTable
  /\ dfs' = <<>>
  /\ idx' = 0
  /\ pc' = "table"
  /\ saveResult' = "running"
  /\ existsResult' = "none"
  /\ UNCHANGED <<tableLive, tableCols>>
  /\ nans' = <<>>
  /\ handed' = {}
  /\ UNCHANGED <<cmpVars, sqlVars>>

\* for table_name, dfs in data.items(): the overwrite check and the DROP;
\* ns[k] is the set of columns of dfs[k] that hold a not-a-number cell
TableTurn(fs, ns) ==
  /\ pc = "table"
  /\ kpos < Len(keys)
  /\ LET t == keys[kpos + 1]
         base == SelectSeq(log, LAMBDA e : e.table = NoTable)
     IN /\ cur' = t
        /\ kpos' = kpos + 1
        /\ existed' = tableLive[t]
        /\ dfs' = fs
        /\ idx' = 1
        /\ IF ShouldDrop(overwrite, tableLive[t])
             THEN /\ tableLive' = [tableLive EXCEPT ![t] = FALSE]
                  /\ tableCols' = [tableCols EXCEPT ![t] = {}]
                  /\ log' = Append(base, Stmt("DROP", t, <<>>, NoFrame))
                  /\ dropped' = dropped \cup {t}
             ELSE /\ log' = base
                  /\ UNCHANGED <<tableLive, tableCols, dropped>>
        /\ pc' = IF fs = <<>> THEN "table" ELSE "ddl"
  /\ UNCHANGED <<dbExists, overwrite, order_by, timezone, keys, saveResult, existsResult>>
  /\ nans' = ns
  /\ handed' = {}
  /\ UNCHANGED <<cmpVars, sqlVars>>

\* _create_or_alter_table(table_name, df, dfs): the CREATE branch
CreateTable ==
  /\ pc = "ddl"
  /\ ~tableLive[cur]
  /\ \E order \in Orders(Universe(dfs)) :
       LET decls == [k \in 1..Len(order) |->
                       Decl(order[k], GetMergedType(dfs, order[k], order_by, timezone))]
       IN log' = Append(log, Stmt("CREATE", cur, decls, NoFrame))
  /\ IF CreateAccepted(Universe(dfs), order_by)
       THEN /\ tableLive' = [tableLive EXCEPT ![cur] = TRUE]
            /\ tableCols' = [tableCols EXCEPT ![cur] = Universe(dfs)]
            /\ pc' = "insert"
            /\ UNCHANGED saveResult
       ELSE /\ pc' = "idle"
            /\ saveResult' = "raised"
            /\ UNCHANGED <<tableLive, tableCols>>
  /\ UNCHANGED <<dbExists, overwrite, order_by, timezone, keys, kpos, existed, cur,
                 dfs, idx, dropped, existsResult>>
  /\ UNCHANGED <<nans, handed>>
  /\ UNCHANGED <<cmpVars, sqlVars>>

\* _create_or_alter_table(table_name, df, dfs): the ALTER branch
AlterTable ==
  /\ pc = "ddl"
  /\ tableLive[cur]
  /\ LET df == dfs[idx]
         missing == MissingCols(df, tableCols[cur])
         alters == [k \in 1..Len(missing) |->
                      Stmt("ALTER", cur,
                           <<Decl(missing[k], AlterType(df, missing[k], timezone))>>,
                           NoFrame)]
     IN /\ log' = log \o alters
        /\ tableCols' = [tableCols EXCEPT ![cur] = @ \cup {missing[k] : k \in 1..Len(missing)}]
  /\ pc' = "insert"
  /\ UNCHANGED <<dbExists, tableLive, overwrite, order_by, timezone, keys, kpos,
                 existed, cur, dfs, idx, dropped, saveResult, existsResult>>
  /\ UNCHANGED <<nans, handed>>
  /\ UNCHANGED <<cmpVars, sqlVars>>

\* the not-a-number cells of the frame insert_df receives: the frame is
\* passed as it is
InsertedCells(cells) == cells

\* self._client.insert_df(table, df), then the next frame or the next table
Insert ==
  /\ pc = "insert"
  /\ log' = Append(log, Stmt("INSERT", cur, <<>>, dfs[idx]))
  /\ idx' = idx + 1
  /\ pc' = IF idx < Len(dfs) THEN "ddl" ELSE "table"
  /\ UNCHANGED <<dbExists, tableLive, tableCols, overwrite, order_by, timezone, keys,
                 kpos, existed, cur, dfs, dropped, saveResult, existsResult>>
  /\ handed' = InsertedCells(nans[idx])
  /\ UNCHANGED nans
  /\ UNCHANGED <<cmpVars, sqlVars>>

\* data.items() is exhausted: _save returns
SaveReturn ==
  /\ pc = "table"
  /\ kpos = Len(keys)
  /\ pc' = "idle"
  /\ saveResult' = "returned"
  /\ UNCHANGED <<dbExists, tableLive, tableCols, overwrite, order_by, timezone, keys,
                 kpos, existed, cur, dfs, idx, log, dropped, existsResult>>
  /\ UNCHANGED <<nans, handed>>
  /\ UNCHANGED <<cmpVars, sqlVars>>

\* ClickHouseTablesDataset._exists: both queries run before the `and`;
\* SHOW TABLES FROM a database that does not exist is an error of the backend
ExistsOutcome(db, live) ==
  IF ~db THEN "raised"
  ELSE IF db /\ Cardinality({t \in Tables : live[t]}) > 0 THEN "true" ELSE "false"

Exists ==
  /\ pc = "idle"
  /\ existsResult' = ExistsOutcome(dbExists, tableLive)
  /\ UNCHANGED <<dbExists, tableLive, tableCols, pc, overwrite, order_by, timezone,
                 keys, kpos, existed, cur, dfs, idx, log, dropped, saveResult>>
  /\ UNCHANGED <<nans, handed>>
  /\ UNCHANGED <<cmpVars, sqlVars>>

(***************************************************************************)
(* ComparisonFunction.  A string argument is a record: k tells None, the   *)
(* empty string, a date text "2024-mm-dd" and a text the parser rejects    *)
(* apart; pad says that blanks surround the text.                          *)
(***************************************************************************)
Str(k, m, d, pad) == [k |-> k, m |-> m, d |-> d, pad |-> pad]
NoneStr == Str("none", 0, 0, FALSE)
EmptyStr == Str("empty", 0, 0, FALSE)
BlankStr == Str("empty", 0, 0, TRUE)
BadStr == Str("bad", 0, 0, FALSE)
DateStrs == {Str("date", m, d, FALSE) : m \in 1..MaxMonth, d \in 1..MaxDay}
PaddedDateStrs == {Str("date", m, d, TRUE) : m \in 1..MaxMonth, d \in 1..MaxDay}
PartitionIds == DateStrs \cup {BadStr, EmptyStr}
CheckpointArgs == DateStrs \cup PaddedDateStrs \cup {NoneStr, EmptyStr, BlankStr, BadStr}

NoneMode == "<None>"
Modes == {NoneMode, "auto", "next", "none", "no", "null", "n", "AUTO", "None", "bogus"}
\* left=None, right=None
NoDays == -1
DayArgs == {NoDays} \cup (0..MaxDelta)
Closes == {"left", "right", "both", NoneMode, "bogus"}

\* str.strip(), applied only when the argument is a str
Strip(s) == IF s.k = "none" THEN s ELSE [s EXCEPT !.pad = FALSE]
\* `not checkpoint`: None and the empty string are falsy
Falsy(s) == s.k = "none" \/ (s.k = "empty" /\ ~s.pad)

\* the injected parser: strptime(s, "%Y-%m-%d"), which raises on anything else
ParseOk(s) == s.k = "date" /\ ~s.pad
\* days of the months of 2024
MonthLen == <<31, 29, 31, 30, 31, 30, 31, 31, 30, 31, 30, 31>>
RECURSIVE DaysBefore(_)
DaysBefore(m) == IF m = 1 THEN 0 ELSE DaysBefore(m - 1) + MonthLen[m - 1]
\* the parsed datetime as days since the start of the year
Ordinal(m, d) == DaysBefore(m) + d
Parse(s) == Ordinal(s.m, s.d)
\* dt + relativedelta(months=1): the same day of the next month, clipped to
\* its length
PlusOneMonth(s) ==
  Ordinal(s.m + 1, IF s.d <= MonthLen[s.m + 1] THEN s.d ELSE MonthLen[s.m + 1])

\* str.lower() on the mode strings
Lower(m) == IF m = "AUTO" THEN "auto" ELSE IF m = "None" THEN "none" ELSE m

Call(fn, p, c, m, l, r, cl) ==
  [fn |-> fn, partition_id |-> p, checkpoint |-> c, mode |-> m,
   left |-> l, right |-> r, close |-> cl]
Returned(b) == [kind |-> "return", load |-> b]
Raised(e) == [kind |-> e, load |-> FALSE]

\* a variant without the `is None` guard
InitCheckpointAlways(cp, partition_id, checkpoint) ==
  IF Falsy(checkpoint) THEN partition_id ELSE checkpoint

\* _init_checkpoint: the new value of self._current_checkpoint
InitCheckpoint(cp, partition_id, checkpoint) ==
  IF cp = NoneStr
    THEN (IF Falsy(checkpoint) THEN partition_id ELSE checkpoint)
    ELSE cp

\* the body of same_month, run with self._current_checkpoint = cp
SameMonthOutcome(cp, partition_id, increment_method) ==
  LET method == IF increment_method = NoneMode THEN "" ELSE increment_method
  IN IF Lower(method) \notin {"no", "null", "none", "n", "auto", "next"}
       THEN Raised("ValueError")
     ELSE IF ~ParseOk(cp) \/ ~ParseOk(partition_id)
       THEN Raised("ValueError")
     ELSE LET is_same_month == Parse(partition_id) = Parse(cp)
              is_next_month == Parse(partition_id) = PlusOneMonth(cp)
          IN IF Lower(method) \in {"no", "null", "none"} THEN Returned(is_same_month)
             ELSE IF method = "auto" THEN Returned(is_same_month \/ is_next_month)
             ELSE IF method = "next" THEN Returned(is_next_month)
             ELSE Returned(FALSE)

\* the body of boundary, run with self._current_checkpoint = cp
BoundaryOutcome(cp, partition_id, left, right, close) ==
  IF close \notin {"left", "right", "both", NoneMode}
    THEN Raised("ValueError")
  ELSE IF ~ParseOk(cp) \/ ~ParseOk(partition_id)
    THEN Raised("ParserError")
  ELSE LET cl == IF close = NoneMode THEN "both" ELSE close
           chk_pt == Parse(cp)
           part_id == Parse(partition_id)
           lower_bound == IF left # NoDays /\ left # 0 THEN chk_pt - left ELSE chk_pt
           has_upper == right # NoDays /\ right # 0
           upper_bound == chk_pt + right
           left_comp == IF cl # "right" THEN part_id >= lower_bound ELSE part_id > lower_bound
           right_comp == IF has_upper
                           THEN (IF cl # "left" THEN part_id <= upper_bound
                                                ELSE part_id < upper_bound)
                           ELSE TRUE
       IN Returned(left_comp /\ right_comp)

NoCall == Call("none", EmptyStr, NoneStr, "auto", NoDays, NoDays, "both")
NoOutcome == [kind |-> "none", load |-> FALSE]

\* the init_checkpoint wrapper of a same_month or boundary call: it strips
\* the checkpoint and runs _init_checkpoint before the decorated function
Enter(fn, p, c) ==
  /\ cmpPc = "idle"
  /\ current_checkpoint' = InitCheckpoint(current_checkpoint, p, Strip(c))
  /\ call' = Call(fn, p, c, "auto", NoDays, NoDays, "both")
  /\ outcome' = NoOutcome
  /\ cmpPc' = "entered"
  /\ UNCHANGED <<saveVars, sqlVars>>

\* the decorated same_month(partition_id, checkpoint, increment_method)
SameMonth(m) ==
  /\ cmpPc = "entered"
  /\ call.fn = "same_month"
  /\ call' = [call EXCEPT !.mode = m]
  /\ outcome' = SameMonthOutcome(current_checkpoint, call.partition_id, m)
  /\ cmpPc' = "done"
  /\ UNCHANGED <<current_checkpoint, saveVars, sqlVars>>

\* the decorated boundary(partition_id, checkpoint, left, right, close)
Boundary(l, r, cl) ==
  /\ cmpPc = "entered"
  /\ call.fn = "boundary"
  /\ call' = [call EXCEPT !.left = l, !.right = r, !.close = cl]
  /\ outcome' = BoundaryOutcome(current_checkpoint, call.partition_id, l, r, cl)
  /\ cmpPc' = "done"
  /\ UNCHANGED <<current_checkpoint, saveVars, sqlVars>>

\* the caller has the result (or the exception) and may call again
Resume ==
  /\ cmpPc = "done"
  /\ cmpPc' = "idle"
  /\ call' = NoCall
  /\ outcome' = NoOutcome
  /\ UNCHANGED <<current_checkpoint, saveVars, sqlVars>>

(***************************************************************************)
(* SQLQueryDataset.  A forwarder is a record of its state ("new" until     *)
(* start succeeds, then "started", then "stopped") and of the number of    *)
(* stop calls it has received; self._ssh_tunnel is its index in tunnels,   *)
(* or NoTunnel for None.                                                   *)
(***************************************************************************)
NoTunnel == 0

SqlConfig(ssh, fp, tpl, ctx) ==
  [ssh |-> ssh, filepath |-> fp, template |-> tpl, context |-> ctx]

SqlConfigs == {SqlConfig(ssh, fp, tpl, ctx) : ssh \in BOOLEAN, fp \in BOOLEAN,
                                              tpl \in BOOLEAN, ctx \in BOOLEAN}

NoSqlConfig == SqlConfig(FALSE, FALSE, FALSE, FALSE)

Forwarder(st, n) == [state |-> st, stops |-> n]

\* the forwarder self._ssh_tunnel refers to is started
HoldsStarted(ref, ts) == ref # NoTunnel /\ ts[ref].state = "started"

\* self._ssh_tunnel.stop()
Stopped(ts, ref) == [ts EXCEPT ![ref] = Forwarder("stopped", @.stops + 1)]

\* self._ssh_tunnel = None
ClearedTunnel(ref) == NoTunnel

\* _render_sql_template: a template without a context is a ValueError
RenderOk(cfg) == ~cfg.template \/ cfg.context

\* SQLQueryDataset.__init__
Construct(cfg) ==
  /\ sqlPc = "unbuilt"
  /\ sqlCfg' = cfg
  /\ ssh_tunnel' = NoTunnel
  /\ sqlPc' = "idle"
  /\ UNCHANGED <<tunnels, engineCached, raising, ran, loadResult>>
  /\ UNCHANGED <<saveVars, cmpVars>>

\* create_connection(connection_str, connection_args): called by the engine
\* property inside _load when the engine is not cached, or by the caller
\* between loads.  start() or the parent's create_connection may raise.
CreateConnection(startOk, superOk) ==
  /\ sqlPc \in {"idle", "engine"}
  /\ sqlPc = "engine" => ~engineCached
  /\ sqlCfg.ssh \/ startOk
  /\ IF sqlCfg.ssh
       THEN /\ Len(tunnels) < MaxTunnels
            /\ tunnels' = Append(tunnels,
                                 Forwarder(IF startOk THEN "started" ELSE "new", 0))
            /\ ssh_tunnel' = Len(tunnels) + 1
            /\ ran' = IF sqlPc = "engine" /\ startOk
                        THEN ran \cup {Len(tunnels) + 1} ELSE ran
       ELSE UNCHANGED <<tunnels, ssh_tunnel, ran>>
  /\ engineCached' = (engineCached \/ (startOk /\ superOk))
  /\ IF sqlPc = "engine"
       THEN /\ raising' = ~(startOk /\ superOk)
            /\ sqlPc' = IF startOk /\ superOk THEN "query" ELSE "finally"
            /\ UNCHANGED loadResult
       ELSE /\ loadResult' = "none"
            /\ UNCHANGED <<sqlPc, raising>>
  /\ UNCHANGED sqlCfg
  /\ UNCHANGED <<saveVars, cmpVars>>

\* _load enters the try block
LoadBegin ==
  /\ sqlPc = "idle"
  /\ sqlPc' = "read"
  /\ raising' = FALSE
  /\ ran' = IF HoldsStarted(ssh_tunnel, tunnels) THEN {ssh_tunnel} ELSE {}
  /\ loadResult' = "running"
  /\ UNCHANGED <<sqlCfg, tunnels, ssh_tunnel, engineCached>>
  /\ UNCHANGED <<saveVars, cmpVars>>

\* if self._filepath: the query text is read from the file, which may fail
ReadSql(ok) ==
  /\ sqlPc = "read"
  /\ ok \/ sqlCfg.filepath
  /\ raising' = ~ok
  /\ sqlPc' = IF ok THEN "render" ELSE "finally"
  /\ UNCHANGED <<sqlCfg, tunnels, ssh_tunnel, engineCached, ran, loadResult>>
  /\ UNCHANGED <<saveVars, cmpVars>>

\* the Jinja2 rendering and the rstrip of the query text
Render ==
  /\ sqlPc = "render"
  /\ raising' = ~RenderOk(sqlCfg)
  /\ sqlPc' = IF RenderOk(sqlCfg) THEN "engine" ELSE "finally"
  /\ UNCHANGED <<sqlCfg, tunnels, ssh_tunnel, engineCached, ran, loadResult>>
  /\ UNCHANGED <<saveVars, cmpVars>>

\* self.engine finds the engine of self._connection_str in the cache
EngineCached ==
  /\ sqlPc = "engine"
  /\ engineCached
  /\ sqlPc' = "query"
  /\ UNCHANGED <<sqlCfg, tunnels, ssh_tunnel, engineCached, raising, ran, loadResult>>
  /\ UNCHANGED <<saveVars, cmpVars>>

\* pd.read_sql_query(con=self.engine.execution_options(...), **load_args)
Query(ok) ==
  /\ sqlPc = "query"
  /\ raising' = ~ok
  /\ sqlPc' = "finally"
  /\ UNCHANGED <<sqlCfg, tunnels, ssh_tunnel, engineCached, ran, loadResult>>
  /\ UNCHANGED <<saveVars, cmpVars>>

\* the finally block of _load, then the return or the pending exception
Finally ==
  /\ sqlPc = "finally"
  /\ IF ssh_tunnel # NoTunnel
       THEN /\ tunnels' = Stopped(tunnels, ssh_tunnel)
            /\ ssh_tunnel' = ClearedTunnel(ssh_tunnel)
       ELSE UNCHANGED <<tunnels, ssh_tunnel>>
  /\ loadResult' = IF raising THEN "raised" ELSE "returned"
  /\ raising' = FALSE
  /\ sqlPc' = "idle"
  /\ UNCHANGED <<sqlCfg, engineCached, ran>>
  /\ UNCHANGED <<saveVars, cmpVars>>

Init ==
  /\ dbExists = FALSE
  /\ tableLive = [t \in Tables |-> FALSE]
  /\ tableCols = [t \in Tables |-> {}]
  /\ pc = "idle"
  /\ overwrite = FALSE
  /\ order_by = "id"
  /\ timezone = NoTimezone
  /\ keys = <<>>
  /\ kpos = 0
  /\ existed = FALSE
  /\ cur = NoTable
  /\ dfs = <<>>
  /\ idx = 0
  /\ log = <<>>
  /\ dropped = {}
  /\ saveResult = "none"
  /\ existsResult = "none"
  /\ nans = <<>>
  /\ handed = {}
  /\ current_checkpoint = NoneStr
  /\ cmpPc = "idle"
  /\ call = NoCall
  /\ outcome = NoOutcome
  /\ sqlCfg = NoSqlConfig
  /\ sqlPc = "unbuilt"
  /\ tunnels = <<>>
  /\ ssh_tunnel = NoTunnel
  /\ engineCached = FALSE
  /\ raising = FALSE
  /\ ran = {}
  /\ loadResult = "none"

Next ==
  \/ \E ds \in Datasets, ks \in KeyLists : SaveBegin(ds, ks)
  \/ \E fs \in FrameLists : TableTurn(fs, NoNaNs(fs))
  \/ CreateTable
  \/ AlterTable
  \/ Insert
  \/ SaveReturn
  \/ Exists

Spec == Init /\ [][Next]_vars

\* the save path on frames whose float64 columns may hold not-a-number cells
NextNaN ==
  \/ \E ds \in Datasets, ks \in KeyLists : SaveBegin(ds, ks)
  \/ \E fs \in FrameLists : \E ns \in NaNChoices(fs) : TableTurn(fs, ns)
  \/ CreateTable
  \/ AlterTable
  \/ Insert
  \/ SaveReturn
  \/ Exists

SpecNaN == Init /\ [][NextNaN]_vars

NextCmp ==
  \/ \E fn \in {"same_month", "boundary"}, p \in PartitionIds, c \in CheckpointArgs :
       Enter(fn, p, c)
  \/ \E m \in Modes : SameMonth(m)
  \/ \E l \in DayArgs, r \in DayArgs, cl \in Closes : Boundary(l, r, cl)
  \/ Resume

SpecCmp == Init /\ [][NextCmp]_vars

NextSql ==
  \/ \E cfg \in SqlConfigs : Construct(cfg)
  \/ \E startOk \in BOOLEAN, superOk \in BOOLEAN : CreateConnection(startOk, superOk)
  \/ LoadBegin
  \/ \E ok \in BOOLEAN : ReadSql(ok)
  \/ Render
  \/ EngineCached
  \/ \E ok \in BOOLEAN : Query(ok)
  \/ Finally

SpecSql == Init /\ [][NextSql]_vars

(***************************************************************************)
(* Properties of the save path and of the existence check.                 *)
(***************************************************************************)
\* the column declarations the logged DDL makes: <<statement, entry>> indices
DeclIdx == {<<i, k>> \in (1..Len(log)) \X (1..Cardinality(Cols)) :
              log[i].op \in {"CREATE", "ALTER"} /\ k <= Len(log[i].decls)}
DeclAt(p) == log[p[1]].decls[p[2]]
OpIdx(o) == {i \in 1..Len(log) : log[i].op = o}
\* the first frame of fs that has column c
FirstFrameWith(fs, c) == fs[CHOOSE k \in 1..Len(fs) :
                             fs[k][c] # Absent /\ \A j \in 1..(k - 1) : fs[j][c] = Absent]
\* the type inferred from all the frames of fs that have column c
UnionBase(fs, c) == GetClickhouseType(ConcatDtype(ColumnDtypes(fs, c)), timezone).base

\* C1: in a save call made with overwrite=false no step removes a table or a
\* column of a table: every live table stays live and keeps all its columns.
C1_AdditiveOnly ==
  [][~overwrite' =>
       \A t \in Tables : tableLive[t] => tableLive'[t] /\ tableCols[t] \subseteq tableCols'[t]]_vars

\* C1 witness: a call without overwrite has extended a table that already
\* existed and held columns, by an ALTER.
C1_Witness ==
  /\ ~overwrite /\ pc = "insert" /\ existed
  /\ OpIdx("ALTER") # {}
  /\ Cardinality(tableCols[cur]) = 2

\* C2 (as claimed): every CREATE column entry and every ADD COLUMN that
\* declares the order_by column declares it without the Nullable wrapper.
C2_OrderByNeverNullable ==
  \A p \in DeclIdx : DeclAt(p).col = order_by => ~DeclAt(p).type.wrap

\* C3, the part the code keeps: DROP once, first, only for a key that existed
\* at its turn, and never without overwrite.
C3_DropDiscipline ==
  /\ (saveResult = "running" /\ overwrite /\ kpos > 0) =>
       /\ (existed <=> OpIdx("DROP") # {})
       /\ Cardinality(OpIdx("DROP")) <= 1
       /\ \A i \in OpIdx("DROP") : log[i].table = cur /\ \A j \in 1..(i - 1) : log[j].table # cur
  /\ (saveResult = "running" /\ ~overwrite) => dropped = {} /\ OpIdx("DROP") = {}
  /\ dropped \subseteq {keys[k] : k \in 1..kpos}

\* C3 (as claimed): with overwrite, a table whose turn has come was dropped
\* iff it existed then, by one DROP that precedes every other statement on it;
\* only keys whose turn has come are dropped; and every dropped table exists
\* when the call returns.
C3_OverwriteDropsAndRecreates ==
  /\ C3_DropDiscipline
  /\ (saveResult = "returned") => \A t \in dropped : tableLive[t]

\* C5 (as claimed): a column is declared at most once per call, every column
\* of a created table exactly once, and every declared type, of CREATE and of
\* ADD COLUMN alike, is the one inferred from all the call's frames that have
\* the column.
C5_OneMergedTypePerColumn ==
  /\ \A p, q \in DeclIdx : DeclAt(p).col = DeclAt(q).col => p = q
  /\ \A i \in OpIdx("CREATE") :
       {log[i].decls[k].col : k \in 1..Len(log[i].decls)} = Universe(dfs)
  /\ \A p \in DeclIdx : DeclAt(p).type.base = UnionBase(dfs, DeclAt(p).col)

\* C5, what the code does instead: a column is declared at most once per
\* call, every column of a created table exactly once; the type of a CREATE
\* entry is inferred from all the call's frames that have the column, the
\* type of an ADD COLUMN from the first frame of the call that has the
\* column, alone.
C5_MergedOnCreateFirstFrameOnAlter ==
  /\ \A p, q \in DeclIdx : DeclAt(p).col = DeclAt(q).col => p = q
  /\ \A i \in OpIdx("CREATE") :
       {log[i].decls[k].col : k \in 1..Len(log[i].decls)} = Universe(dfs)
  /\ \A p \in DeclIdx :
       IF log[p[1]].op = "CREATE"
         THEN DeclAt(p).type.base = UnionBase(dfs, DeclAt(p).col)
         ELSE DeclAt(p).type.base =
                GetClickhouseType(FirstFrameWith(dfs, DeclAt(p).col)[DeclAt(p).col], timezone).base

\* C5, the merge on CREATE happens: a table was created from an int64 frame and a float64 frame
\* of the same column, declared once as Float64.
C5_Witness ==
  /\ pc = "insert" /\ Len(dfs) = 2
  /\ dfs[1]["id"] = "int64" /\ dfs[2]["id"] = "float64"
  /\ \E p \in DeclIdx : /\ log[p[1]].op = "CREATE"
                        /\ DeclAt(p).col = "id"
                        /\ DeclAt(p).type.base = "Float64"

\* C6: CREATE DATABASE is the first statement of the call and the database
\* exists from then on; CREATE TABLE precedes every ALTER; the frames are
\* inserted in the order received; and when a frame is about to be inserted
\* its table exists and holds every column of the frame.
C6_OperationOrder ==
  /\ saveResult # "none" => /\ log # <<>> /\ OpIdx("CREATE_DATABASE") = {1}
                            /\ dbExists
  /\ \A i \in OpIdx("CREATE"), j \in OpIdx("ALTER") : i < j
  /\ LET ins == SelectSeq(log, LAMBDA e : e.op = "INSERT")
     IN /\ Len(ins) <= Len(dfs)
        /\ \A k \in 1..Len(ins) : ins[k].frame = dfs[k] /\ ins[k].table = cur
        /\ pc = "insert" => Len(ins) = idx - 1
  /\ pc = "insert" => tableLive[cur] /\ FrameColSet(dfs[idx]) \subseteq tableCols[cur]

\* C6 witness: the second frame of a list is about to be inserted after an
\* ALTER added a column of it.
C6_Witness ==
  /\ pc = "insert" /\ idx = 2
  /\ \E i \in OpIdx("INSERT"), j \in OpIdx("ALTER") :
       i < j /\ log[j].decls[1].col \in FrameColSet(dfs[2])

\* C10 (as claimed): the existence check returns true iff the database
\* exists and holds a table, and returns false in every other backend state.
C10_ExistsTotal ==
  existsResult # "none" =>
    existsResult = (IF dbExists /\ (\E t \in Tables : tableLive[t]) THEN "true" ELSE "false")

(***************************************************************************)
(* Properties of the comparator.                                           *)
(***************************************************************************)
\* C4: the first call fixes the remembered checkpoint to its stripped
\* checkpoint argument, or to its partition_id when that argument is None or
\* empty; no later step changes it; and a later call is decided against it.
C4_FirstCallWins ==
  [][/\ current_checkpoint # NoneStr => current_checkpoint' = current_checkpoint
     /\ (current_checkpoint = NoneStr /\ cmpPc' = "entered") =>
          current_checkpoint' =
            (IF call'.checkpoint.k = "none" \/ call'.checkpoint.k = "empty"
               THEN call'.partition_id
               ELSE [call'.checkpoint EXCEPT !.pad = FALSE])
     /\ (cmpPc' = "done" /\ call'.fn = "same_month" /\ call'.mode = "none"
           /\ outcome'.kind = "return") =>
          (outcome'.load <=> call'.partition_id = current_checkpoint')]_vars

\* C4 witness: a later same_month call that names another checkpoint is
\* admitted because its partition is the remembered checkpoint.
C4_Witness ==
  /\ cmpPc = "done" /\ call.fn = "same_month" /\ call.mode = "none"
  /\ call.checkpoint.k = "date" /\ ~call.checkpoint.pad
  /\ call.checkpoint # current_checkpoint
  /\ call.partition_id = current_checkpoint
  /\ outcome = Returned(TRUE)

\* C7 (as claimed): a boundary call that returns admits iff the partition is
\* within checkpoint - left .. checkpoint + right, the side `close` opens
\* being strict, for every supplied left and right, 0 included; the upper
\* bound is dropped only when right is omitted.
C7_BoundaryWindow ==
  (cmpPc = "done" /\ call.fn = "boundary" /\ outcome.kind = "return") =>
    LET chk == Ordinal(current_checkpoint.m, current_checkpoint.d)
        part == Ordinal(call.partition_id.m, call.partition_id.d)
        lo == IF call.left = NoDays THEN chk ELSE chk - call.left
        hi == chk + call.right
        lowerOk == IF call.close = "right" THEN part > lo ELSE part >= lo
        upperOk == IF call.right = NoDays THEN TRUE
                   ELSE IF call.close = "left" THEN part < hi ELSE part <= hi
    IN outcome.load <=> (lowerOk /\ upperOk)

\* C8 (as claimed): with both texts parseable, same_month returns the same
\* month test for the modes None, 'none', 'no', 'null', same or next month
\* for 'auto', next month for 'next'; every other mode string raises the
\* configuration error.
C8_SameMonthModes ==
  (cmpPc = "done" /\ call.fn = "same_month"
     /\ ParseOk(current_checkpoint) /\ ParseOk(call.partition_id)) =>
    LET same == call.partition_id = current_checkpoint
        next == /\ call.partition_id.m = current_checkpoint.m + 1
                /\ call.partition_id.d = current_checkpoint.d
    IN IF call.mode \in {NoneMode, "none", "no", "null"} THEN outcome = Returned(same)
       ELSE IF call.mode = "auto" THEN outcome = Returned(same \/ next)
       ELSE IF call.mode = "next" THEN outcome = Returned(next)
       ELSE outcome.kind = "ValueError"

\* C9 (as claimed): a call whose checkpoint or partition the parser rejects
\* ends in the configuration error (ValueError), never in the parser's own
\* exception and never in a return value.
C9_ParserFailureIsValueError ==
  (cmpPc = "done" /\ (~ParseOk(current_checkpoint) \/ ~ParseOk(call.partition_id))) =>
    outcome.kind = "ValueError"

\* the columns of the frames fs[1..n] in first-seen order
RECURSIVE FirstSeenUpTo(_, _)
FirstSeenUpTo(fs, n) ==
  IF n = 0 THEN <<>>
  ELSE LET prev == FirstSeenUpTo(fs, n - 1)
           seen == {prev[k] : k \in 1..Len(prev)}
       IN prev \o SelectSeq(FrameCols(fs[n]), LAMBDA c : c \notin seen)
FirstSeen(fs) == FirstSeenUpTo(fs, Len(fs))
\* the columns a logged CREATE declares, in the statement's order
CreateCols(i) == [k \in 1..Len(log[i].decls) |-> log[i].decls[k].col]

\* C12: the CREATE statement of the running table lists the columns of the
\* union of its frames in first-seen order across the frames taken in the
\* caller's order, so that the statement is a function of the frames.
C12_CreateFirstSeenOrder ==
  \A i \in OpIdx("CREATE") : log[i].table = cur => CreateCols(i) = FirstSeen(dfs)

\* C12, the part the set iteration keeps: the CREATE statement lists every
\* column of the union exactly once
C12_CreateListsUnionOnce ==
  \A i \in OpIdx("CREATE") :
    log[i].table = cur =>
      /\ {CreateCols(i)[k] : k \in 1..Len(log[i].decls)} = Universe(dfs)
      /\ Len(log[i].decls) = Cardinality(Universe(dfs))

\* C13: no frame the save call hands to insert_df holds a not-a-number
\* cell: each such cell has been replaced by a null before the insert.
C13_NoNaNReachesBackend ==
  handed = {}

(***************************************************************************)
(* Properties of SQLQueryDataset._load.                                    *)
(***************************************************************************)
\* C11: for a dataset with SSH credentials, once a load has returned or
\* raised, self._ssh_tunnel is None and every started forwarder the dataset
\* held during that load is stopped and has received exactly one stop call;
\* no forwarder ever receives a second stop call
C11_TunnelStoppedOnce ==
  /\ \A i \in DOMAIN tunnels : tunnels[i].stops <= 1
  /\ (sqlCfg.ssh /\ loadResult \in {"returned", "raised"}) =>
       /\ ssh_tunnel = NoTunnel
       /\ \A i \in ran : tunnels[i] = Forwarder("stopped", 1)

\* C11, what the finally block does: the forwarder self._ssh_tunnel refers
\* to when the block runs receives its first and only stop call there, and
\* the reference is cleared
C11_HeldTunnelStopped ==
  [][(sqlPc = "finally" /\ ssh_tunnel # NoTunnel) =>
       /\ tunnels[ssh_tunnel].stops = 0
       /\ tunnels'[ssh_tunnel] = Forwarder("stopped", 1)
       /\ ssh_tunnel' = NoTunnel]_vars

\* a load that raised after its tunnel was started has finished
C11_Witness ==
  /\ sqlCfg.ssh
  /\ loadResult = "raised"
  /\ ran # {}
  /\ \A i \in ran : tunnels[i] = Forwarder("stopped", 1)

====
